---- MODULE Spec2Model ----
(***************************************************************************)
(* dmrecon: the driver of apps/dmrecon/dmrecon.cc.                         *)
(*                                                                         *)
(* main() either reconstructs one master view on the main thread, or runs  *)
(* the list of view IDs through an OpenMP parallel for with a dynamic      *)
(* schedule of chunk size one.  Every reconstruction goes through          *)
(* reconstruct(), which holds a ProgressHandle on the process-wide         *)
(* FancyProgressPrinter for the time of the call.                          *)
(*                                                                         *)
(* The model has one control state for main() (mpc), one for every thread  *)
(* of the OpenMP team (pc), the scene's views (camera, embedding), the     *)
(* printer's per-view status (viewStatus) and the printer's thread (dash). *)
(* fate, outcome, persist and queries record what was done to each entry   *)
(* of the list; they are written and never read by the actions.            *)
(*                                                                         *)
(* Spec is one run of the program.  DashSpec adds the passes of the        *)
(* printer's thread (Render, snap), RerunSpec a second run of the same     *)
(* command on the scene the first run left behind (Restart, run).          *)
(* FairSpec and FairDashSpec are Spec and DashSpec with the assumption     *)
(* that the process keeps running.                                         *)
(***************************************************************************)
EXTENDS Integers, Sequences, FiniteSets

\* Number of views of the scene (views.size()).
NumViews == 2
\* Longest list of view IDs given with --list-view.
MaxList == 2
\* Threads of the OpenMP team; thread 1 is the thread that runs main().
NumThreads == 2

Views == 0 .. (NumViews - 1)
\* IDs the caller can name; NumViews stands for every ID that is too large.
IDs == 0 .. NumViews
Threads == 1 .. NumThreads
MaxJobs == IF MaxList > NumViews THEN MaxList ELSE NumViews
\* Entries of listIDs; slot 0 is the job of single-view mode (master_id).
Jobs == 0 .. MaxJobs

ProgressStyle == {"PROGRESS_SILENT", "PROGRESS_SIMPLE", "PROGRESS_FANCY"}
CameraStates == {"null", "invalid", "valid"}
Statuses == {"None", "Pending", "Running", "Done", "Failed"}

VARIABLES
    camera,         \* per view: views[id] == NULL, camera invalid, camera valid
    embedding,      \* per view: views[id]->has_embedding(embedding_name)
    embedding0,     \* embedding as it was when the scene was loaded
    force_recon,    \* --force
    progress_style, \* --progress
    master_id,      \* --master-view, -1 when not given
    listIDs,        \* --list-view
    viewStatus,     \* fancyProgressPrinter's status of every view ID
    dash,           \* fancyProgressPrinter's thread
    mpc,            \* where main() is
    next,           \* next unclaimed iteration of the parallel for
    pc,             \* where each thread of the team is
    cur,            \* the iteration (entry of listIDs) each thread is in, or 0
    fate,           \* per entry: what the loop body decided
    outcome,        \* per entry: how reconstruct() ended
    persist,        \* per entry: how save_mve_file() ended
    queries,        \* the calls the loop body made on the scene's views
    allViews,       \* the list was empty and every view was listed (line 204)
    run,            \* which run of the program over the scene this is
    snap            \* the statuses the printer's thread rendered last

vars == <<camera, embedding, embedding0, force_recon, progress_style,
          master_id, listIDs, viewStatus, dash, mpc, next, pc, cur, fate,
          outcome, persist, queries, allViews, run, snap>>

inputs == <<camera, embedding0, force_recon, progress_style, master_id>>
history == <<fate, outcome, persist, queries>>
\* What no step of one run of main() and of its team changes.
outside == <<run, snap>>

Lists == UNION {[1 .. n -> IDs] : n \in 0 .. MaxList}

----------------------------------------------------------------------------
(* FancyProgressPrinter and ProgressHandle (fancy_progress_printer.h).     *)

\* addRefView(id): the view is known to the printer and queued.
AddRefView(st, id) == [st EXCEPT ![id] = "Pending"]

\* addRefViews(ids): addRefView for every element of the list.
AddRefViews(st, ids) ==
    [v \in IDs |-> IF \E k \in 1 .. Len(ids) : ids[k] = v
                   THEN "Pending" ELSE st[v]]

\* ProgressHandle's constructor: the view is in progress.
HandleAcquire(st, id) == [st EXCEPT ![id] = "Running"]

\* ProgressHandle::setDone().
HandleSetDone(st, id) == [st EXCEPT ![id] = "Done"]

\* ProgressHandle's destructor: failed unless setDone() was called.
HandleRelease(st, id, done) ==
    IF done THEN st ELSE [st EXCEPT ![id] = "Failed"]

(* mvs::DMRecon (libs/dmrecon).                                            *)

\* A reconstruction can succeed only on a view that exists and has a camera.
CanReconstruct(id) == id \in Views /\ camera[id] = "valid"

\* A successful start() leaves the depth map embedded in the view.
StoreDepthMap(emb, id) == [emb EXCEPT ![id] = TRUE]

----------------------------------------------------------------------------
\* The state when main() has parsed its options and loaded the scene.  Only
\* a view with a valid camera can hold a depth map from an earlier run, and
\* the list is not read when a master view is given.
Init ==
    /\ camera \in [Views -> CameraStates]
    /\ embedding0 \in [Views -> BOOLEAN]
    /\ \A v \in Views : embedding0[v] => camera[v] = "valid"
    /\ embedding = embedding0
    /\ force_recon \in BOOLEAN
    /\ progress_style \in ProgressStyle
    /\ master_id \in -1 .. NumViews
    /\ listIDs \in Lists
    /\ master_id >= 0 => listIDs = <<>>
    /\ viewStatus = [v \in IDs |-> "None"]
    /\ dash = "none"
    /\ mpc = "start"
    /\ next = 1
    /\ pc = [t \in Threads |-> "idle"]
    /\ cur = [t \in Threads |-> 0]
    /\ fate = [j \in Jobs |-> "unclaimed"]
    /\ outcome = [j \in Jobs |-> "none"]
    /\ persist = [j \in Jobs |-> "none"]
    /\ queries = {}
    /\ allViews = FALSE
    /\ run = "first"
    /\ snap = [v \in IDs |-> "None"]

\* The view ID thread t is working on: listIDs[i], or master_id.
Id(t) == IF cur[t] = 0 THEN master_id ELSE listIDs[cur[t]]

\* Start with pt_create() called whatever the progress style is.
StartAlways ==
    /\ mpc = "start"
    /\ dash' = "running"
    /\ mpc' = "branch"
    /\ UNCHANGED <<inputs, outside, embedding, listIDs, allViews, viewStatus, next, pc, cur,
                   history>>

\* if (progress_style == PROGRESS_FANCY) fancyProgressPrinter.pt_create();
Start ==
    /\ mpc = "start"
    /\ dash' = IF progress_style = "PROGRESS_FANCY" THEN "running" ELSE dash
    /\ mpc' = "branch"
    /\ UNCHANGED <<inputs, outside, embedding, listIDs, allViews, viewStatus, next, pc, cur,
                   history>>

\* master_id >= 0: fancyProgressPrinter.addRefView(master_id);
SingleRegister ==
    /\ mpc = "branch"
    /\ master_id >= 0
    /\ viewStatus' = AddRefView(viewStatus, master_id)
    /\ mpc' = "single"
    /\ UNCHANGED <<inputs, outside, embedding, listIDs, allViews, dash, next, pc, cur, history>>

\* try { reconstruct(scene, mySettings); on the main thread, no rule applied.
SingleCall ==
    /\ mpc = "single"
    /\ pc[1] = "idle"
    /\ pc' = [pc EXCEPT ![1] = "handle"]
    /\ fate' = [fate EXCEPT ![0] = "dispatched"]
    /\ UNCHANGED <<inputs, outside, embedding, listIDs, allViews, viewStatus, dash, mpc, next,
                   cur, outcome, persist, queries>>

\* The call returned or its exception was caught (lines 194-197).
SingleReturn ==
    /\ mpc = "single"
    /\ pc[1] = "ret"
    /\ pc' = [pc EXCEPT ![1] = "idle"]
    /\ mpc' = "after"
    /\ UNCHANGED <<inputs, outside, embedding, listIDs, allViews, viewStatus, dash, next, cur,
                   history>>

\* FillList that leaves an empty list empty.
FillListNothing(ids) == ids

\* if (listIDs.empty()) every view is listed.
FillList(ids) == IF ids = <<>> THEN [k \in 1 .. NumViews |-> k - 1] ELSE ids

\* BatchRegister without the call of addRefViews().
BatchRegisterNoAdd ==
    /\ mpc = "branch"
    /\ master_id < 0
    /\ listIDs' = FillList(listIDs)
    /\ allViews' = (listIDs = <<>>)
    /\ mpc' = "loop"
    /\ UNCHANGED <<inputs, outside, embedding, viewStatus, dash, next, pc, cur,
                   history>>

\* master_id < 0: the list is completed and handed to the printer whole,
\* before the loop looks at any of its entries.
BatchRegister ==
    /\ mpc = "branch"
    /\ master_id < 0
    /\ listIDs' = FillList(listIDs)
    /\ allViews' = (listIDs = <<>>)
    /\ viewStatus' = AddRefViews(viewStatus, listIDs')
    /\ mpc' = "loop"
    /\ UNCHANGED <<inputs, outside, embedding, dash, next, pc, cur, history>>

\* ClaimNext with the loop counter left where it was.
ClaimNextStuck(t) ==
    /\ mpc = "loop"
    /\ pc[t] = "idle"
    /\ \A u \in Threads : u < t => pc[u] # "idle"
    /\ next <= Len(listIDs)
    /\ cur' = [cur EXCEPT ![t] = next]
    /\ pc' = [pc EXCEPT ![t] = "check"]
    /\ fate' = [fate EXCEPT ![next] = "claimed"]
    /\ UNCHANGED <<inputs, outside, embedding, listIDs, allViews, viewStatus, dash, mpc, next,
                   outcome, persist, queries>>

\* ClaimNext by a thread that is still inside reconstruct().
ClaimNextBusy(t) ==
    /\ mpc = "loop"
    /\ pc[t] \in {"idle", "recon"}
    /\ next <= Len(listIDs)
    /\ cur' = [cur EXCEPT ![t] = next]
    /\ next' = next + 1
    /\ pc' = [pc EXCEPT ![t] = "check"]
    /\ fate' = [fate EXCEPT ![next] = "claimed"]
    /\ UNCHANGED <<inputs, outside, embedding, listIDs, allViews, viewStatus, dash, mpc,
                   outcome, persist, queries>>

\* ClaimNext handing out chunks of two iterations of which one is run.
ClaimNextSkips(t) ==
    /\ mpc = "loop"
    /\ pc[t] = "idle"
    /\ \A u \in Threads : u < t => pc[u] # "idle"
    /\ next <= Len(listIDs)
    /\ cur' = [cur EXCEPT ![t] = next]
    /\ next' = next + 2
    /\ pc' = [pc EXCEPT ![t] = "check"]
    /\ fate' = [fate EXCEPT ![next] = "claimed"]
    /\ UNCHANGED <<inputs, outside, embedding, listIDs, allViews, viewStatus, dash, mpc,
                   outcome, persist, queries>>

\* schedule(dynamic, 1): an idle thread takes the next iteration.  Idle
\* threads differ in nothing but their number, so the runtime's choice among
\* them is fixed to the lowest one; every other choice is this one with the
\* threads renumbered.
ClaimNext(t) ==
    /\ mpc = "loop"
    /\ pc[t] = "idle"
    /\ \A u \in Threads : u < t => pc[u] # "idle"
    /\ next <= Len(listIDs)
    /\ cur' = [cur EXCEPT ![t] = next]
    /\ next' = next + 1
    /\ pc' = [pc EXCEPT ![t] = "check"]
    /\ fate' = [fate EXCEPT ![next] = "claimed"]
    /\ UNCHANGED <<inputs, outside, embedding, listIDs, allViews, viewStatus, dash, mpc,
                   outcome, persist, queries>>

\* Verdict with the third rule left out.
VerdictIgnoresExisting(id) ==
    IF id >= NumViews THEN "skipRange"
    ELSE IF camera[id] = "null" \/ camera[id] # "valid" THEN "skipCamera"
    ELSE "dispatched"

\* Verdict with the third rule not asking for force_recon.
VerdictIgnoresForce(id) ==
    IF id >= NumViews THEN "skipRange"
    ELSE IF camera[id] = "null" \/ camera[id] # "valid" THEN "skipCamera"
    ELSE IF embedding[id] THEN "skipEmbedding"
    ELSE "dispatched"

\* The three rules of the loop body (lines 218-226), in the order of the code.
Verdict(id) ==
    IF id >= NumViews THEN "skipRange"
    ELSE IF camera[id] = "null" \/ camera[id] # "valid" THEN "skipCamera"
    ELSE IF ~force_recon /\ embedding[id] THEN "skipEmbedding"
    ELSE "dispatched"

\* What the rules called on the scene before they decided (|| and && stop
\* at the first operand that decides).
Asked(id) ==
    IF id >= NumViews THEN {}
    ELSE {<<"views", id>>} \cup
         IF camera[id] = "null" THEN {}
         ELSE {<<"is_camera_valid", id>>} \cup
              IF camera[id] # "valid" \/ force_recon THEN {}
              ELSE {<<"has_embedding", id>>}

\* The loop body up to the call of reconstruct(): continue, or go on.
Check(t) ==
    /\ mpc = "loop"
    /\ pc[t] = "check"
    /\ LET id == Id(t)
           v == Verdict(id)
       IN /\ fate' = [fate EXCEPT ![cur[t]] = v]
          /\ queries' = queries \cup Asked(id)
          /\ pc' = [pc EXCEPT ![t] = IF v = "dispatched" THEN "handle"
                                     ELSE "idle"]
          /\ cur' = [cur EXCEPT ![t] = IF v = "dispatched" THEN @ ELSE 0]
    /\ UNCHANGED <<inputs, outside, embedding, listIDs, allViews, viewStatus, dash, mpc, next,
                   outcome, persist>>

\* reconstruct(): ProgressHandle handle(fancyProgressPrinter, settings);
HandleCtor(t) ==
    /\ pc[t] = "handle"
    /\ viewStatus' = HandleAcquire(viewStatus, Id(t))
    /\ pc' = [pc EXCEPT ![t] = "recon"]
    /\ UNCHANGED <<inputs, outside, embedding, listIDs, allViews, dash, mpc, next, cur, history>>

\* reconstruct(): DMRecon's constructor, setRecon() and start() all return.
ReconOk(t) ==
    /\ pc[t] = "recon"
    /\ CanReconstruct(Id(t))
    /\ embedding' = StoreDepthMap(embedding, Id(t))
    /\ pc' = [pc EXCEPT ![t] = "setDone"]
    /\ UNCHANGED <<inputs, outside, listIDs, allViews, viewStatus, dash, mpc, next, cur, history>>

\* AfterThrow with no catch around the call: the thread is gone.
AfterThrowUncaught(t) == "terminated"

\* Where a thread goes on when reconstruct() threw: the catch of the loop
\* body ends the iteration, the catch of single-view mode ends the call.
AfterThrow(t) == IF cur[t] = 0 THEN "ret" ELSE "idle"

\* ReconThrow with the handle's destructor leaving the status alone.
ReconThrowNoRelease(t) ==
    /\ pc[t] = "recon"
    /\ outcome' = [outcome EXCEPT ![cur[t]] = "Failed"]
    /\ pc' = [pc EXCEPT ![t] = AfterThrow(t)]
    /\ cur' = [cur EXCEPT ![t] = 0]
    /\ UNCHANGED <<inputs, outside, embedding, listIDs, allViews, viewStatus, dash, mpc, next,
                   fate, persist, queries>>

\* reconstruct(): DMRecon's constructor or start() throws; the handle is
\* destroyed without setDone() and the exception is caught by the caller.
ReconThrow(t) ==
    /\ pc[t] = "recon"
    /\ viewStatus' = HandleRelease(viewStatus, Id(t), FALSE)
    /\ outcome' = [outcome EXCEPT ![cur[t]] = "Failed"]
    /\ pc' = [pc EXCEPT ![t] = AfterThrow(t)]
    /\ cur' = [cur EXCEPT ![t] = 0]
    /\ UNCHANGED <<inputs, outside, embedding, listIDs, allViews, dash, mpc, next, fate,
                   persist, queries>>

\* reconstruct(): handle.setDone(); the handle is destroyed, the call returns.
SetDone(t) ==
    /\ pc[t] = "setDone"
    /\ viewStatus' = HandleRelease(HandleSetDone(viewStatus, Id(t)), Id(t), TRUE)
    /\ outcome' = [outcome EXCEPT ![cur[t]] = "Done"]
    /\ pc' = [pc EXCEPT ![t] = IF cur[t] = 0 THEN "ret" ELSE "save"]
    /\ UNCHANGED <<inputs, outside, embedding, listIDs, allViews, dash, mpc, next, cur, fate,
                   persist, queries>>

\* views[id]->save_mve_file(); returns.
SaveOk(t) ==
    /\ pc[t] = "save"
    /\ persist' = [persist EXCEPT ![cur[t]] = "saved"]
    /\ pc' = [pc EXCEPT ![t] = "idle"]
    /\ cur' = [cur EXCEPT ![t] = 0]
    /\ UNCHANGED <<inputs, outside, embedding, listIDs, allViews, viewStatus, dash, mpc, next,
                   fate, outcome, queries>>

\* SaveThrow with the save inside the handle's scope: the status is failed.
SaveThrowMarksFailed(t) ==
    /\ pc[t] = "save"
    /\ persist' = [persist EXCEPT ![cur[t]] = "failed"]
    /\ viewStatus' = HandleRelease(viewStatus, Id(t), FALSE)
    /\ pc' = [pc EXCEPT ![t] = "idle"]
    /\ cur' = [cur EXCEPT ![t] = 0]
    /\ UNCHANGED <<inputs, outside, embedding, listIDs, allViews, dash, mpc, next, fate,
                   outcome, queries>>

\* views[id]->save_mve_file(); throws, caught at lines 235-238.
SaveThrow(t) ==
    /\ pc[t] = "save"
    /\ persist' = [persist EXCEPT ![cur[t]] = "failed"]
    /\ pc' = [pc EXCEPT ![t] = "idle"]
    /\ cur' = [cur EXCEPT ![t] = 0]
    /\ UNCHANGED <<inputs, outside, embedding, listIDs, allViews, viewStatus, dash, mpc, next,
                   fate, outcome, queries>>

\* LoopJoin without the barrier: the main thread goes on as soon as no
\* iteration is left to hand out.
LoopJoinNoWait ==
    /\ mpc = "loop"
    /\ next > Len(listIDs)
    /\ mpc' = "after"
    /\ UNCHANGED <<inputs, outside, embedding, listIDs, allViews, viewStatus, dash, next, pc,
                   cur, history>>

\* The implicit barrier at the end of the parallel for: no iteration is
\* left to hand out and every thread of the team has ended its last one.
LoopJoin ==
    /\ mpc = "loop"
    /\ next > Len(listIDs)
    /\ \A t \in Threads : pc[t] = "idle"
    /\ mpc' = "after"
    /\ UNCHANGED <<inputs, outside, embedding, listIDs, allViews, viewStatus, dash, next, pc,
                   cur, history>>

\* Stop whose request never reaches the printer's thread.
StopForgets ==
    /\ mpc = "after"
    /\ progress_style = "PROGRESS_FANCY"
    /\ mpc' = "join"
    /\ UNCHANGED <<inputs, outside, embedding, listIDs, allViews, viewStatus, dash, next, pc,
                   cur, history>>

\* if (progress_style == PROGRESS_FANCY) fancyProgressPrinter.stop();
Stop ==
    /\ mpc = "after"
    /\ progress_style = "PROGRESS_FANCY"
    /\ dash' = "stopping"
    /\ mpc' = "join"
    /\ UNCHANGED <<inputs, outside, embedding, listIDs, allViews, viewStatus, next, pc, cur,
                   history>>

\* Any other progress style: neither stop() nor pt_join() is called.
NoDashboard ==
    /\ mpc = "after"
    /\ progress_style # "PROGRESS_FANCY"
    /\ mpc' = "save_views"
    /\ UNCHANGED <<inputs, outside, embedding, listIDs, allViews, viewStatus, dash, next, pc,
                   cur, history>>

\* The printer's thread sees the stop request and ends.
DashExit ==
    /\ dash = "stopping"
    /\ dash' = "exited"
    /\ UNCHANGED <<inputs, outside, embedding, listIDs, allViews, viewStatus, mpc, next, pc,
                   cur, history>>

\* fancyProgressPrinter.pt_join(); returns once the printer's thread ended.
Join ==
    /\ mpc = "join"
    /\ dash = "exited"
    /\ mpc' = "save_views"
    /\ UNCHANGED <<inputs, outside, embedding, listIDs, allViews, viewStatus, dash, next, pc,
                   cur, history>>

\* scene->save_views(); return 0;
SaveViews ==
    /\ mpc = "save_views"
    /\ mpc' = "done"
    /\ UNCHANGED <<inputs, outside, embedding, listIDs, allViews, viewStatus, dash, next, pc,
                   cur, history>>

Worker(t) ==
    \/ ClaimNext(t)
    \/ Check(t)
    \/ HandleCtor(t)
    \/ ReconOk(t)
    \/ ReconThrow(t)
    \/ SetDone(t)
    \/ SaveOk(t)
    \/ SaveThrow(t)

Main ==
    \/ Start
    \/ SingleRegister
    \/ SingleCall
    \/ SingleReturn
    \/ BatchRegister
    \/ LoopJoin
    \/ Stop
    \/ NoDashboard
    \/ Join
    \/ SaveViews

Next ==
    \/ Main
    \/ DashExit
    \/ \E t \in Threads : Worker(t)

Spec == Init /\ [][Next]_vars

\* The process keeps running: as long as some thread of the team, the main
\* thread or the printer's thread can take a step, a step is taken, and
\* every call made by reconstruct() returns or throws.  Nothing is assumed
\* about which thread it is.
Fairness == WF_vars(Next)

\* The inputs of the runs checked for termination.  A missing view takes the
\* same branch of the loop body as a view with an invalid camera, and
\* PROGRESS_SIMPLE the same branches of main() as PROGRESS_SILENT, so one of
\* each pair is enough; with force_recon the embedding is never read
\* (line 225), so it is left empty.
FairInit ==
    /\ Init
    /\ progress_style # "PROGRESS_SIMPLE"
    /\ \A v \in Views : camera[v] # "null"
    /\ force_recon => \A v \in Views : ~embedding0[v]

FairSpec == FairInit /\ [][Next]_vars /\ Fairness

\* One pass of the printer's thread while it has not been asked to stop:
\* it copies the statuses of all views under the printer's lock and prints
\* the copy.
Render ==
    /\ dash = "running"
    /\ snap' = viewStatus
    /\ UNCHANGED <<inputs, run, embedding, listIDs, allViews, viewStatus, dash,
                   mpc, next, pc, cur, history>>

\* The program with its printer's thread rendering.
NextDash ==
    \/ Next
    \/ Render

\* The inputs of the runs checked with the printer's thread rendering: all
\* progress styles; as in FairInit, no missing view and no depth map that
\* is never looked at.
DashInit ==
    /\ Init
    /\ \A v \in Views : camera[v] # "null"
    /\ force_recon => \A v \in Views : ~embedding0[v]

DashSpec == DashInit /\ [][NextDash]_vars

\* The inputs of the runs checked for the end of the printer's thread: as
\* FairInit; which depth maps exist and --force decide only which entries
\* are skipped, so the runs with the fancy printer are taken on a scene
\* without depth maps and without --force.
FairDashInit ==
    /\ FairInit
    /\ progress_style = "PROGRESS_FANCY" =>
           (~force_recon /\ \A v \in Views : ~embedding0[v])

FairDashSpec == FairDashInit /\ [][NextDash]_vars /\ Fairness

\* Entry j ran through reconstruct() and save_mve_file() without a throw.
Succeeded(j) == outcome[j] = "Done" /\ persist[j] = "saved"

\* A batch run without --force in which every entry that was handed to
\* reconstruct() succeeded and was saved.
CleanRun ==
    /\ master_id < 0
    /\ ~force_recon
    /\ \A j \in 1 .. Len(listIDs) : fate[j] = "dispatched" => Succeeded(j)

\* The depth maps a later run can find in the scene's directory: those that
\* were there before, those save_mve_file() wrote (line 233), and of the
\* others whatever scene->save_views() wrote (line 250).
OnDisk(e) ==
    \A v \in Views :
        /\ e[v] => embedding[v]
        /\ embedding0[v] => e[v]
        /\ (\E j \in Jobs : fate[j] = "dispatched" /\ persist[j] = "saved"
                            /\ (IF j = 0 THEN master_id ELSE listIDs[j]) = v)
               => e[v]

\* The program has returned and is started again with the same command line
\* on the scene it left behind.
Restart ==
    /\ mpc = "done"
    /\ run = "first"
    /\ run' = IF CleanRun THEN "again_clean" ELSE "again"
    /\ \E e \in [Views -> BOOLEAN] :
           /\ OnDisk(e)
           /\ embedding0' = e
           /\ embedding' = e
    /\ listIDs' = IF allViews THEN <<>> ELSE listIDs
    /\ allViews' = FALSE
    /\ viewStatus' = [v \in IDs |-> "None"]
    /\ dash' = "none"
    /\ mpc' = "start"
    /\ next' = 1
    /\ pc' = [t \in Threads |-> "idle"]
    /\ cur' = [t \in Threads |-> 0]
    /\ fate' = [j \in Jobs |-> "unclaimed"]
    /\ outcome' = [j \in Jobs |-> "none"]
    /\ persist' = [j \in Jobs |-> "none"]
    /\ queries' = {}
    /\ UNCHANGED <<camera, force_recon, progress_style, master_id, snap>>

\* The program run once and then once more.
NextRerun ==
    \/ Next
    \/ Restart

RerunSpec == Init /\ [][NextRerun]_vars

TypeOK ==
    /\ viewStatus \in [IDs -> Statuses]
    /\ next \in 1 .. (MaxJobs + 1)
    /\ cur \in [Threads -> Jobs]
    /\ dash \in {"none", "running", "stopping", "exited"}
    /\ snap \in [IDs -> Statuses]
    /\ run \in {"first", "again", "again_clean"}
    /\ allViews \in BOOLEAN

----------------------------------------------------------------------------
(* Vocabulary of the properties.                                           *)

\* The parallel for, or the single call, is over.
LoopDone == mpc \in {"after", "join", "save_views", "done"}

BatchMode == master_id < 0

\* The entries of the list the loop runs over.
Entries == 1 .. Len(listIDs)

\* The view ID of entry j; entry 0 is the master view.
JobId(j) == IF j = 0 THEN master_id ELSE listIDs[j]

Terminal == {"Done", "Failed"}

\* Threads inside reconstruct() or save_mve_file() for view v.
Busy(v) == {t \in Threads : pc[t] \in {"recon", "setDone", "save"} /\ Id(t) = v}

\* Calls of save_mve_file() made on view v.
SaveCalls(v) == Cardinality({j \in Entries : listIDs[j] = v /\ persist[j] # "none"})

\* The three rules applied to the scene as it was loaded.
AdmissibleAtStart(id) ==
    /\ id \in Views
    /\ camera[id] = "valid"
    /\ force_recon \/ ~embedding0[id]

\* The statuses one view may go through, step by step.
LegalSteps == {<<"None", "Pending">>, <<"Pending", "Running">>,
               <<"Running", "Done">>, <<"Running", "Failed">>}

----------------------------------------------------------------------------
\* C1: in batch mode a reconstruction that throws stops nothing but its own
\* entry: the loop never gets stuck, and when it is over every entry of the
\* list was looked at and every entry that passed the rules had its
\* reconstruction run to Done or Failed.
C1_FailureContained ==
    BatchMode =>
        /\ mpc = "loop" => ENABLED Next
        /\ LoopDone =>
              \A j \in Entries :
                  /\ fate[j] \notin {"unclaimed", "claimed"}
                  /\ fate[j] = "dispatched" =>
                        /\ outcome[j] \in Terminal
                        /\ viewStatus[listIDs[j]] \in Terminal

\* C1 witness: the loop is over, an entry failed and a later entry is Done.
C1_Witness ==
    /\ BatchMode
    /\ LoopDone
    /\ \E j, k \in Entries : j < k /\ outcome[j] = "Failed" /\ outcome[k] = "Done"

\* C2: with every thread scheduled and every reconstruction returning or
\* throwing, the run gets past the loop, and from then on every entry that
\* passed the rules has a view whose status is Done or Failed.
C2_Terminates ==
    /\ <>LoopDone
    /\ [](LoopDone =>
            \A j \in Jobs : fate[j] = "dispatched" =>
                viewStatus[JobId(j)] \in Terminal)

\* C2 witness: the loop is over with two entries dispatched, one Done and
\* one Failed.
C2_Witness ==
    /\ LoopDone
    /\ \E j, k \in Entries :
          /\ fate[j] = "dispatched" /\ viewStatus[listIDs[j]] = "Done"
          /\ fate[k] = "dispatched" /\ viewStatus[listIDs[k]] = "Failed"

\* C3: the status of a view only ever moves None -> Pending -> Running ->
\* Done or Failed; nothing leaves Done or Failed.
C3_LegalTransitions ==
    [][\A v \in IDs : viewStatus'[v] # viewStatus[v] =>
            <<viewStatus[v], viewStatus'[v]>> \in LegalSteps]_vars

C5_Admission ==
    [][/\ \A t \in Threads :
              (pc[t] = "check" /\ pc'[t] # "check") =>
                  IF /\ Id(t) \in Views
                     /\ camera[Id(t)] = "valid"
                     /\ force_recon \/ ~embedding[Id(t)]
                  THEN pc'[t] = "handle" /\ fate'[cur[t]] = "dispatched"
                  ELSE pc'[t] = "idle" /\ fate'[cur[t]] # "dispatched"
       /\ \A j \in Entries :
              /\ outcome'[j] # "none" => fate'[j] = "dispatched"
              /\ persist'[j] # "none" => fate'[j] = "dispatched"
       /\ \A q \in queries' :
              /\ q[2] \in Views
              /\ q[1] = "is_camera_valid" => camera[q[2]] # "null"
              /\ q[1] = "has_embedding" => camera[q[2]] = "valid"]_vars

\* C5 witness: the loop is over; one entry was skipped for each of the three
\* reasons or dispatched, and here one was skipped because of an embedding
\* while another was dispatched.
C5_Witness ==
    /\ LoopDone
    /\ \E j, k \in Entries :
          fate[j] = "skipEmbedding" /\ fate[k] = "dispatched"

\* C6: once the loop is over the views known to the printer are exactly the
\* views of the entries that passed the rules.
C6_RegisteredIsAdmitted ==
    LoopDone =>
        {v \in IDs : viewStatus[v] # "None"} =
            {JobId(j) : j \in {i \in Jobs : fate[i] = "dispatched"}}

\* C7: in single-view mode a master view that fails a rule (out of range,
\* no valid camera, embedding present without force_recon) is never known to
\* the printer and reconstruct() is never called for it.
C7_SingleModeAdmission ==
    (master_id >= 0 /\ ~AdmissibleAtStart(master_id)) =>
        /\ \A v \in IDs : viewStatus[v] = "None"
        /\ fate[0] # "dispatched"

\* C8: in the loop, an entry that reached Done and is not yet saved is still
\* held by a thread that is about to call save_mve_file(); save_mve_file()
\* is called only for entries that reached Done; and a save that throws
\* changes no status and leaves its thread free to take the next entry.
C8_Persistence ==
    [][/\ \A j \in Entries :
              /\ persist'[j] # "none" => outcome'[j] = "Done"
              /\ (outcome'[j] = "Done" /\ persist'[j] = "none") =>
                    \E t \in Threads : cur'[t] = j /\ pc'[t] = "save"
       /\ \A t \in Threads :
              (pc[t] = "save" /\ pc'[t] # "save") =>
                  /\ persist[cur[t]] = "none"
                  /\ persist'[cur[t]] \in {"saved", "failed"}
                  /\ viewStatus' = viewStatus
                  /\ pc'[t] = "idle"
                  /\ mpc' = "loop"]_vars

\* C8 witness: the loop is over; a save threw, its view is still Done, and a
\* later entry was dispatched and saved.
C8_Witness ==
    /\ LoopDone
    /\ \E j, k \in Entries :
          /\ j < k
          /\ listIDs[j] # listIDs[k]
          /\ persist[j] = "failed"
          /\ viewStatus[listIDs[j]] = "Done"
          /\ persist[k] = "saved"

\* C9: save_mve_file() is called at most once per view, and no two threads
\* are reconstructing or saving the same view at the same time.
C9_OneWriterPerView ==
    \A v \in Views :
        /\ SaveCalls(v) <= 1
        /\ Cardinality(Busy(v)) <= 1

\* C10 as stated: every entry that passes the rules on the scene as it was
\* loaded is dispatched.
C10_Original ==
    (BatchMode /\ LoopDone) =>
        \A j \in Entries : AdmissibleAtStart(listIDs[j]) => fate[j] = "dispatched"

\* C10 amended: entries naming the same view are not merged.  With
\* force_recon every entry in range with a valid camera is dispatched.
\* Without it, such an entry is dispatched when the view had no embedding at
\* the start and no other entry of the same view reached Done, and it is
\* skipped only if the view had an embedding at the start or another entry
\* of the same view reached the end of its reconstruction.
C10_Duplicates ==
    (BatchMode /\ LoopDone) =>
        \A j \in Entries :
            (listIDs[j] \in Views /\ camera[listIDs[j]] = "valid") =>
                LET others == {k \in Entries : k # j /\ listIDs[k] = listIDs[j]
                                               /\ fate[k] = "dispatched"}
                IN /\ force_recon => fate[j] = "dispatched"
                   /\ (~embedding0[listIDs[j]] /\ others = {}) =>
                          fate[j] = "dispatched"
                   /\ fate[j] # "dispatched" =>
                          /\ fate[j] = "skipEmbedding"
                          /\ ~force_recon
                          /\ \/ embedding0[listIDs[j]]
                             \/ \E k \in others : outcome[k] = "Done"

\* C10 witness: with force_recon two entries of the same view were both
\* dispatched and ran to the end.
C10_Witness ==
    /\ BatchMode
    /\ LoopDone
    /\ force_recon
    /\ \E j, k \in Entries :
          /\ j # k
          /\ listIDs[j] = listIDs[k]
          /\ outcome[j] \in Terminal
          /\ outcome[k] \in Terminal

\* C11: when a batch run without force_recon in which every dispatched
\* entry succeeded and was saved is followed by a second run of the same
\* command on the same scene, the second run hands no entry to
\* reconstruct() and makes no view known to the printer.
C11_Idempotent ==
    run = "again_clean" =>
        /\ \A j \in Jobs : fate[j] # "dispatched"
        /\ \A t \in Threads : pc[t] \notin {"handle", "recon", "setDone", "save"}
        /\ \A v \in IDs : viewStatus[v] = "None"

\* How far a status is on the way of a job through the printer.
Rank(st) ==
    CASE st = "None" -> 0
      [] st = "Pending" -> 1
      [] st = "Running" -> 2
      [] st \in Terminal -> 3

\* C12: what the printer renders is never impossible: a view is shown Done
\* or Failed only if a handle was constructed for it before, and from one
\* rendering to the next no view goes back to an earlier status or leaves
\* Done or Failed.
C12_Snapshots ==
    /\ [](\A v \in IDs :
             snap[v] \in Terminal =>
                 \E j \in Jobs : JobId(j) = v /\ fate[j] = "dispatched")
    /\ [][\A v \in IDs :
             /\ Rank(snap[v]) <= Rank(snap'[v])
             /\ snap[v] \in Terminal => snap'[v] = snap[v]]_vars

Fancy == progress_style = "PROGRESS_FANCY"

\* C13: with the fancy printer, the printer's thread is started before any
\* handle is constructed and is running as long as a thread of the team is
\* in the loop body; it is asked to stop, and joined, only when the loop is
\* over and every dispatched entry is Done or Failed; scene->save_views()
\* runs in every run, failed entries or not, once, and with the fancy
\* printer only after the printer's thread has been joined.
C13_Lifecycle ==
    /\ [](Fancy =>
            /\ (\/ \E t \in Threads : pc[t] # "idle"
                \/ \E v \in IDs : viewStatus[v] \in {"Running", "Done", "Failed"}
                \/ \E j \in Jobs : fate[j] # "unclaimed")
                  => dash # "none"
            /\ (~LoopDone /\ mpc # "start") => dash = "running"
            /\ dash \in {"stopping", "exited"} =>
                  /\ LoopDone
                  /\ mpc # "after"
                  /\ \A t \in Threads : pc[t] = "idle"
                  /\ \A j \in Jobs :
                        fate[j] = "dispatched" => outcome[j] \in Terminal
                  /\ \A v \in IDs : viewStatus[v] # "Running"
            /\ mpc \in {"save_views", "done"} => dash = "exited")
    /\ [][/\ (mpc # "done" /\ mpc' = "done") => mpc = "save_views"
          /\ mpc = "done" => mpc' = "done"]_vars
    /\ <>(mpc = "done")

\* C13 witness: a fancy run in which an entry failed has joined the
\* printer's thread and saved the scene.
C13_Witness ==
    /\ Fancy
    /\ mpc = "done"
    /\ dash = "exited"
    /\ \E j \in Jobs : outcome[j] = "Failed"
    /\ \E j \in Jobs : outcome[j] = "Done"

\* The entries of the run: those of the list, or the master view alone.
Listed == IF BatchMode THEN Entries ELSE {0}

\* C14: every view the run will work on is known to the printer, as
\* Pending, before any thread starts any entry: until the registration
\* no entry is claimed and no view has left None; from then on every listed
\* view is known; and a view becomes Running only when it was known before.
C14_RegisteredFirst ==
    /\ [](mpc \in {"start", "branch"} =>
            /\ \A t \in Threads : pc[t] = "idle"
            /\ \A j \in Jobs : fate[j] = "unclaimed"
            /\ \A v \in IDs : viewStatus[v] = "None")
    /\ [](mpc \notin {"start", "branch"} =>
            \A j \in Listed : viewStatus[JobId(j)] # "None")
    /\ [][/\ \A v \in IDs :
                (viewStatus[v] # "Running" /\ viewStatus'[v] = "Running") =>
                    viewStatus[v] # "None"
          /\ \A v \in IDs :
                (viewStatus[v] = "None" /\ viewStatus'[v] # "None") =>
                    /\ viewStatus'[v] = "Pending"
                    /\ \A t \in Threads : pc[t] = "idle"
                    /\ \A w \in IDs : viewStatus[w] = "None"]_vars

\* C14 witness: a thread has constructed the handle of its entry while
\* another listed view is still Pending.
C14_Witness ==
    /\ BatchMode
    /\ \E t \in Threads : pc[t] = "recon" /\ viewStatus[Id(t)] = "Running"
    /\ \E j \in Entries : viewStatus[listIDs[j]] = "Pending" /\ fate[j] = "unclaimed"

\* C15 as stated: when no view ID was given, no view is made known to the
\* printer and no entry is claimed or dispatched; the list the loop runs
\* over is empty.
C15_Original ==
    (BatchMode /\ allViews) =>
        /\ listIDs = <<>>
        /\ \A v \in IDs : viewStatus[v] = "None"
        /\ \A j \in Jobs : fate[j] = "unclaimed"

\* C15 amended: an empty list stands for all views.  When no view ID was
\* given, the list the loop runs over holds every view of the scene once,
\* in ascending order; every view is made known to the printer before the
\* loop; and when the loop is over, exactly the views that passed the three
\* rules on the scene as it was loaded have been dispatched.
C15_AllViews ==
    /\ [](allViews =>
            /\ BatchMode
            /\ listIDs = [k \in 1 .. NumViews |-> k - 1]
            /\ \A v \in Views : viewStatus[v] # "None"
            /\ LoopDone =>
                  \A j \in Entries :
                      fate[j] = "dispatched" <=> AdmissibleAtStart(listIDs[j]))
    /\ [][(BatchMode /\ mpc = "branch" /\ mpc' # "branch") =>
              (allViews' <=> listIDs = <<>>)]_vars

\* C15 witness: no view ID was given; the loop is over, one view was
\* reconstructed and another one was skipped.
C15_Witness ==
    /\ allViews
    /\ LoopDone
    /\ \E j \in Entries : outcome[j] = "Done"
    /\ \E j \in Entries : fate[j] \notin {"dispatched", "unclaimed", "claimed"}

\* The scene, the printer's table and the entries: all that the jobs read
\* and write.
jobState == <<embedding, listIDs, allViews, viewStatus, next, pc, cur, fate,
              outcome, persist, queries>>

\* The entries of view v that were handed to reconstruct().
DispatchedOn(v) == {j \in Listed : JobId(j) = v /\ fate[j] = "dispatched"}

Active(j) == fate[j] = "dispatched" /\ outcome[j] = "none"

\* The threads that are working on entry j.
Holders(j) == {t \in Threads : pc[t] # "idle" /\ cur[t] = j}

\* The threads that hold a handle.
InReconstruct == {t \in Threads : pc[t] \in {"recon", "setDone"}}

\* C17: every entry whose reconstruction is under way is held by exactly
\* one thread, and a thread holds one entry at a time; so there are never
\* more such entries, nor more views in status Running, than threads in
\* the team.  With a master view only the main thread works, on one entry.
C17_BoundedConcurrency ==
    /\ \A j \in Jobs : Active(j) => Cardinality(Holders(j)) = 1
    /\ \A j \in Entries : Cardinality(Holders(j)) <= 1
    /\ Cardinality({j \in Jobs : Active(j)}) <= NumThreads
    /\ Cardinality({v \in IDs : viewStatus[v] = "Running"})
           <= Cardinality(InReconstruct)
    /\ Cardinality(InReconstruct) <= NumThreads
    /\ ~BatchMode =>
           /\ \A t \in Threads : t # 1 => pc[t] = "idle"
           /\ \A j \in Jobs : Active(j) => j = 0
           /\ Cardinality({v \in IDs : viewStatus[v] = "Running"}) <= 1

\* C17 witness: every thread of the team is inside reconstruct(), each for
\* another view, and all these views are Running.
C17_Witness ==
    /\ BatchMode
    /\ \A t \in Threads : pc[t] = "recon" /\ viewStatus[Id(t)] = "Running"
    /\ \A t, u \in Threads : t # u => Id(t) # Id(u)

\* C18: the entries are handed out one at a time and in order: a thread
\* takes an entry only when it is idle, the entry it takes is the first one
\* not taken yet, and an entry once taken is never taken again or by a
\* second thread; when the loop is over every entry has been run through
\* the loop body.  As long as an entry is left and some thread is idle, an
\* idle thread can take it, whatever the other threads are busy with.
C18_DynamicChunkOne ==
    /\ [](BatchMode =>
            /\ \A j \in Entries : j < next <=> fate[j] # "unclaimed"
            /\ \A j \in Entries : fate[j] = "claimed" <=>
                   \E t \in Threads : cur[t] = j /\ pc[t] = "check"
            /\ \A t, u \in Threads :
                   (t # u /\ pc[t] # "idle" /\ pc[u] # "idle") => cur[t] # cur[u]
            /\ LoopDone =>
                   \A j \in Entries : fate[j] \notin {"unclaimed", "claimed"}
            /\ (mpc = "loop" /\ next <= Len(listIDs)
                   /\ \E t \in Threads : pc[t] = "idle") =>
                   ENABLED (\E t \in Threads : ClaimNext(t)))
    /\ [][/\ \A t \in Threads :
                (cur'[t] # cur[t] /\ cur'[t] # 0) =>
                    /\ pc[t] = "idle"
                    /\ cur'[t] = next
                    /\ next' = next + 1
                    /\ fate[next] = "unclaimed"
                    /\ \A u \in Threads : u # t => cur'[u] = cur[u]
          /\ next' # next =>
                \E t \in Threads : cur'[t] = next /\ pc'[t] = "check"
          /\ \A j \in Jobs :
                fate[j] # "unclaimed" =>
                    /\ fate'[j] # "unclaimed"
                    /\ fate'[j] = "claimed" => fate[j] = "claimed"]_vars

\* C18 witness: one thread is still inside reconstruct() for the first
\* entry while the next entry has been taken and run to its end by another
\* thread.
C18_Witness ==
    /\ mpc = "loop"
    /\ \E t \in Threads : pc[t] = "recon" /\ cur[t] = 1
    /\ Len(listIDs) >= 2
    /\ outcome[2] \in Terminal
    /\ persist[2] # "none" \/ outcome[2] = "Failed"

====
